---- MODULE Spec2Model ----
(***************************************************************************)
(* Model of src/main.py: the validator is_valid_value, the cleaner         *)
(* clean_data, and the __main__ pipeline (connection retry loop, layered   *)
(* to_sql writes, merge, report queries and CSV exports).                  *)
(*                                                                         *)
(* Two specifications share the variables:                                 *)
(*   SpecClean  applies is_valid_value and clean_data to bounded inputs;   *)
(*   Spec       runs the __main__ pipeline against a database.             *)
(***************************************************************************)
EXTENDS Integers, Sequences, FiniteSets

----------------------------------------------------------------------------
(* Bounds of the model *)

\* longest table given to clean_data in SpecClean
MaxLen == 3
\* most rows of the transactions file / the catalog file in Spec
MaxTxnRows == 2
MaxCatRows == 2
\* most consecutive OperationalErrors the database produces at startup
MaxFailures == 2
\* number of times the pipeline is run against the same database
MaxRuns == 2

\* time.sleep(5) between two connection attempts
RetryInterval == 5

----------------------------------------------------------------------------
(* Python scalars.  A scalar is a record [kind, n, s]:                     *)
(*   kind "int"      : the integer n                                       *)
(*   kind "str"      : the string s, a sequence of characters              *)
(*   kind "none"     : None                                                *)
(*   kind "nan"      : float('nan'), pandas' missing number                *)
(*   kind "datetime" : a Timestamp; n = year*10000 + month*100 + day       *)

PyInt(n) == [kind |-> "int", n |-> n, s |-> <<>>]
PyStr(s) == [kind |-> "str", n |-> 0, s |-> s]
None == [kind |-> "none", n |-> 0, s |-> <<>>]
NaN == [kind |-> "nan", n |-> 0, s |-> <<>>]
Datetime(n) == [kind |-> "datetime", n |-> n, s |-> <<>>]

Digits == {"0", "1", "2", "3", "4", "5", "6", "7", "8", "9"}

DigitVal(c) ==
    CASE c = "0" -> 0 [] c = "1" -> 1 [] c = "2" -> 2 [] c = "3" -> 3
      [] c = "4" -> 4 [] c = "5" -> 5 [] c = "6" -> 6 [] c = "7" -> 7
      [] c = "8" -> 8 [] c = "9" -> 9

AllDigits(s) == Len(s) > 0 /\ \A i \in 1..Len(s) : s[i] \in Digits

RECURSIVE ParseDigits(_)
ParseDigits(s) ==
    IF s = <<>> THEN 0
    ELSE 10 * ParseDigits(SubSeq(s, 1, Len(s) - 1)) + DigitVal(s[Len(s)])

\* Python's float(value): a number, or the exception it raises.  Strings are
\* parsed ("nan", or an optional sign and digits); None and Timestamps are
\* not accepted at all.
Float(value) ==
    CASE value.kind = "int" -> [exc |-> "none", nan |-> FALSE, n |-> value.n]
      [] value.kind = "nan" -> [exc |-> "none", nan |-> TRUE, n |-> 0]
      [] value.kind = "str" ->
            LET s == value.s
                signed == Len(s) > 0 /\ s[1] \in {"-", "+"}
                body == IF signed THEN SubSeq(s, 2, Len(s)) ELSE s
            IN  IF s = <<"n", "a", "n">>
                THEN [exc |-> "none", nan |-> TRUE, n |-> 0]
                ELSE IF AllDigits(body)
                THEN [exc |-> "none", nan |-> FALSE,
                      n |-> IF signed /\ s[1] = "-" THEN 0 - ParseDigits(body)
                            ELSE ParseDigits(body)]
                ELSE [exc |-> "ValueError", nan |-> FALSE, n |-> 0]
      [] OTHER -> [exc |-> "TypeError", nan |-> FALSE, n |-> 0]

\* is_valid_value: [exc, ret]; exc is the exception that escapes the function
is_valid_value(value) ==
    LET val == Float(value)
    IN  IF val.exc = "ValueError" THEN [exc |-> "none", ret |-> FALSE]
        ELSE IF val.exc # "none" THEN [exc |-> val.exc, ret |-> FALSE]
        ELSE [exc |-> "none", ret |-> (~val.nan /\ val.n > 0)]

----------------------------------------------------------------------------
(* pandas.to_datetime on one value.  Strings are read with the format      *)
(* %m/%d/%y, whose fields accept one or two digits; a Timestamp is kept.   *)

DaysInMonth(m, y) ==
    IF m \in {4, 6, 9, 11} THEN 30
    ELSE IF m = 2 THEN (IF y % 4 = 0 THEN 29 ELSE 28)
    ELSE 31

to_datetime(value) ==
    CASE value.kind = "datetime" -> [exc |-> "none", v |-> value]
      [] value.kind = "str" ->
            LET s == value.s
                slashes == {i \in 1..Len(s) : s[i] = "/"}
            IN  IF Cardinality(slashes) # 2
                THEN [exc |-> "ParseError", v |-> value]
                ELSE
                  LET i1 == CHOOSE i \in slashes : \A j \in slashes : i <= j
                      i2 == CHOOSE i \in slashes : \A j \in slashes : j <= i
                      fm == SubSeq(s, 1, i1 - 1)
                      fd == SubSeq(s, i1 + 1, i2 - 1)
                      fy == SubSeq(s, i2 + 1, Len(s))
                      ok == /\ AllDigits(fm) /\ Len(fm) <= 2
                            /\ AllDigits(fd) /\ Len(fd) <= 2
                            /\ AllDigits(fy) /\ Len(fy) = 2
                      m == ParseDigits(fm)
                      d == ParseDigits(fd)
                      yy == ParseDigits(fy)
                      y == IF yy <= 68 THEN 2000 + yy ELSE 1900 + yy
                  IN  IF ok /\ m \in 1..12 /\ d >= 1 /\ d <= DaysInMonth(m, y)
                      THEN [exc |-> "none", v |-> Datetime(y * 10000 + m * 100 + d)]
                      ELSE [exc |-> "ParseError", v |-> value]
      [] OTHER -> [exc |-> "ParseError", v |-> value]

----------------------------------------------------------------------------
(* DataFrames: [cols, index, rows].  cols is the sequence of column names, *)
(* index the row labels, rows the rows, each a function from the column    *)
(* names to scalars.                                                       *)

DataFrame(cols, rows) ==
    [cols |-> cols, index |-> [i \in 1..Len(rows) |-> i], rows |-> rows]

NoFrame == [cols |-> <<>>, index |-> <<>>, rows |-> <<>>]

Range(s) == {s[i] : i \in 1..Len(s)}

\* the subframe of the positions in keep, in order
RECURSIVE SelectPositions(_, _)
SelectPositions(n, keep) ==
    IF n = 0 THEN <<>>
    ELSE IF n \in keep THEN Append(SelectPositions(n - 1, keep), n)
    ELSE SelectPositions(n - 1, keep)

Take(df, keep) ==
    LET pos == SelectPositions(Len(df.rows), keep)
    IN  [cols |-> df.cols,
         index |-> [k \in 1..Len(pos) |-> df.index[pos[k]]],
         rows |-> [k \in 1..Len(pos) |-> df.rows[pos[k]]]]

\* DataFrame.drop_duplicates(): keep the first of every group of equal rows
drop_duplicates(df) ==
    Take(df, {i \in 1..Len(df.rows) : \A j \in 1..(i - 1) : df.rows[j] # df.rows[i]})

\* clean_data: [exc, df]; exc is the exception that escapes the function
clean_data(df) ==
    LET d1 == drop_duplicates(df)
        hasTs == "timestamp" \in Range(d1.cols)
        hasPrice == "price" \in Range(d1.cols)
        conv == [i \in 1..Len(d1.rows) |-> to_datetime(d1.rows[i]["timestamp"])]
        tsFails == hasTs /\ \E i \in 1..Len(d1.rows) : conv[i].exc # "none"
        d2 == IF hasTs /\ ~tsFails
              THEN [d1 EXCEPT !.rows = [i \in 1..Len(d1.rows) |->
                        [d1.rows[i] EXCEPT !["timestamp"] = conv[i].v]]]
              ELSE d1
        valid == [i \in 1..Len(d2.rows) |-> is_valid_value(d2.rows[i]["price"])]
        raised == {valid[i].exc : i \in 1..Len(d2.rows)} \ {"none"}
    IN  IF tsFails THEN [exc |-> "ParseError", df |-> NoFrame]
        ELSE IF ~hasPrice THEN [exc |-> "none", df |-> d2]
        ELSE IF raised # {} THEN [exc |-> CHOOSE e \in raised : TRUE, df |-> NoFrame]
        ELSE [exc |-> "none", df |-> Take(d2, {i \in 1..Len(d2.rows) : valid[i].ret})]

----------------------------------------------------------------------------
(* The collaborators of the pipeline *)

\* load_data: [exc, df]; a file is [cols, rows]
load_data(file, type) ==
    IF type = "csv" THEN [exc |-> "none", df |-> DataFrame(file.cols, file.rows)]
    ELSE IF type = "json" THEN [exc |-> "none", df |-> DataFrame(file.cols, file.rows)]
    ELSE [exc |-> "Exception", df |-> NoFrame]

\* to_sql with if_exists="replace"
to_sql_replace(database, dest, df) ==
    [database EXCEPT ![dest] = df.rows]

\* DataFrame.to_sql(name, schema, if_exists="append", index=False): the
\* table schema.name of the database after the write
to_sql(database, dest, df) ==
    [database EXCEPT ![dest] = @ \o df.rows]

\* the columns of left.merge(right, on="product_id", how="inner"): a column
\* that both frames have, other than the key, gets the suffix _x or _y
\* ("price" is the only such column of the two files)
SuffixX(c) == IF c = "price" THEN "price_x" ELSE c
SuffixY(c) == IF c = "price" THEN "price_y" ELSE c

RECURSIVE MergeCols(_, _, _)
MergeCols(cols, other, side) ==
    IF cols = <<>> THEN <<>>
    ELSE LET c == Head(cols)
             rest == MergeCols(Tail(cols), other, side)
         IN  IF side = "right" /\ c = "product_id" THEN rest
             ELSE IF c # "product_id" /\ c \in other
             THEN <<(IF side = "left" THEN SuffixX(c) ELSE SuffixY(c))>> \o rest
             ELSE <<c>> \o rest

JoinRow(l, r, lcols, rcols) ==
    [c \in Range(MergeCols(lcols, Range(rcols), "left"))
           \cup Range(MergeCols(rcols, Range(lcols), "right")) |->
        IF c \in Range(lcols) /\ c \notin (Range(rcols) \ {"product_id"}) THEN l[c]
        ELSE IF c \in Range(rcols) /\ c \notin Range(lcols) THEN r[c]
        ELSE IF c = "price_x" THEN l["price"]
        ELSE r["price"]]

RECURSIVE MatchesOf(_, _, _, _)
MatchesOf(l, rrows, lcols, rcols) ==
    IF rrows = <<>> THEN <<>>
    ELSE IF Head(rrows)["product_id"] = l["product_id"]
    THEN <<JoinRow(l, Head(rrows), lcols, rcols)>>
            \o MatchesOf(l, Tail(rrows), lcols, rcols)
    ELSE MatchesOf(l, Tail(rrows), lcols, rcols)

RECURSIVE MergeRows(_, _, _, _)
MergeRows(lrows, rrows, lcols, rcols) ==
    IF lrows = <<>> THEN <<>>
    ELSE MatchesOf(Head(lrows), rrows, lcols, rcols)
            \o MergeRows(Tail(lrows), rrows, lcols, rcols)

\* a merge that joins every transaction with the first matching catalog row only
merge_first_match(left, right) ==
    LET first == Take(right, {j \in 1..Len(right.rows) :
                        \A i \in 1..(j - 1) :
                            right.rows[i]["product_id"] # right.rows[j]["product_id"]})
    IN  DataFrame(MergeCols(left.cols, Range(right.cols), "left")
                    \o MergeCols(right.cols, Range(left.cols), "right"),
                  MergeRows(left.rows, first.rows, left.cols, right.cols))

merge(left, right) ==
    DataFrame(MergeCols(left.cols, Range(right.cols), "left")
                \o MergeCols(right.cols, Range(left.cols), "right"),
              MergeRows(left.rows, right.rows, left.cols, right.cols))

\* the sum of a sequence of numbers
RECURSIVE Sum(_)
Sum(ns) == IF ns = <<>> THEN 0 ELSE Head(ns) + Sum(Tail(ns))

\* quantity * price_x of a unified row
OrderValue(r) == r["quantity"].n * r["price_x"].n

\* SELECT product_id, product_name, SUM(quantity) AS total_sold ...
\* GROUP BY product_id, product_name ORDER BY total_sold DESC LIMIT 2:
\* every sequence the database may return (ties are broken arbitrarily)
Top2Query(unified) ==
    LET groups == {<<r["product_id"], r["product_name"]>> : r \in Range(unified)}
        total(g) == Sum([i \in 1..Len(unified) |->
                        IF <<unified[i]["product_id"], unified[i]["product_name"]>> = g
                        THEN unified[i]["quantity"].n ELSE 0])
        Row(g) == [product_id |-> g[1], product_name |-> g[2], total_sold |-> total(g)]
    IN  IF groups = {} THEN {<<>>}
        ELSE IF Cardinality(groups) = 1 THEN {<<Row(g)>> : g \in groups}
        ELSE {<<Row(g[1]), Row(g[2])>> : g \in
                {h \in groups \X groups :
                    /\ h[1] # h[2]
                    /\ total(h[1]) >= total(h[2])
                    /\ \A o \in groups \ {h[1], h[2]} : total(o) <= total(h[2])}}

\* SELECT customer_id, AVG(quantity * price_x) ... GROUP BY customer_id;
\* the average is kept as the pair (sum, count)
AvgQuery(unified) ==
    {[customer_id |-> c,
      sum |-> Sum([i \in 1..Len(unified) |->
                IF unified[i]["customer_id"] = c THEN OrderValue(unified[i]) ELSE 0]),
      count |-> Cardinality({i \in 1..Len(unified) : unified[i]["customer_id"] = c})]
        : c \in {r["customer_id"] : r \in Range(unified)}}

\* SELECT category, SUM(quantity * price_x) ... GROUP BY category
RevenueQuery(unified) ==
    {[category |-> c,
      total_revenue |-> Sum([i \in 1..Len(unified) |->
                IF unified[i]["category"] = c THEN OrderValue(unified[i]) ELSE 0])]
        : c \in {r["category"] : r \in Range(unified)}}

----------------------------------------------------------------------------
(* State *)

VARIABLES
    \* SpecClean: the inputs and results of the pure functions
    value,                  \* the scalar given to is_valid_value
    validated,              \* [st, exc, ret]: what is_valid_value(value) did
    table,                  \* the DataFrame given to clean_data
    cleaned,                \* [st, exc, df]: what clean_data(table) did
    recleaned,              \* [st, exc, df]: what clean_data(cleaned.df) did
    \* Spec: the environment of the process
    txn_file,               \* ./raw/customer_transactions.json
    cat_file,               \* ./raw/product_catalog.csv
    db,                     \* the tables of the database, by schema.name
    output,                 \* the files under ./output
    run,                    \* which execution of the program this is
    failures,               \* OperationalErrors of this execution so far
    slept,                  \* time spent in time.sleep by this execution
    last_attempt,           \* how the last pass of the retry loop ended
    \* Spec: the process
    pc,                     \* the statement to execute next
    exc,                    \* the unhandled exception that ended the process
    engine,                 \* whether create_engine has returned
    probe,                  \* the connection of the retry loop
    conn,                   \* the connection of the with block
    customer_txn_df,
    product_cat_df,
    clean_customer_txn_df,
    clean_product_cat_df,
    merge_data,
    top_2_selling,
    avg_price_per_cust,
    total_rev_per_prod

cleanVars == <<value, validated, table, cleaned, recleaned>>
envVars == <<txn_file, cat_file, run>>
gateVars == <<failures, slept, last_attempt, engine, probe>>
frameVars == <<customer_txn_df, product_cat_df, clean_customer_txn_df,
               clean_product_cat_df, merge_data>>
reportVars == <<top_2_selling, avg_price_per_cust, total_rev_per_prod>>
vars == <<cleanVars, envVars, gateVars, frameVars, reportVars,
          db, output, pc, exc, conn>>

----------------------------------------------------------------------------
(* Inputs *)

Chars(str) ==
    CASE str = "5" -> <<"5">>
      [] str = "0" -> <<"0">>
      [] str = "-3" -> <<"-", "3">>
      [] str = "+7" -> <<"+", "7">>
      [] str = "abc" -> <<"a", "b", "c">>
      [] str = "x" -> <<"x">>
      [] str = "" -> <<>>
      [] str = "nan" -> <<"n", "a", "n">>
      [] str = "1/2/24" -> <<"1", "/", "2", "/", "2", "4">>
      [] str = "01/02/24" -> <<"0", "1", "/", "0", "2", "/", "2", "4">>
      [] str = "1/3/24" -> <<"1", "/", "3", "/", "2", "4">>
      [] str = "2/30/24" -> <<"2", "/", "3", "0", "/", "2", "4">>

S(str) == PyStr(Chars(str))

\* the scalars given to is_valid_value
ScalarSet ==
    {PyInt(5), PyInt(0), PyInt(-3), NaN, None}
        \cup {S(t) : t \in {"5", "0", "-3", "+7", "abc", "", "nan"}}

\* the tables given to clean_data: four column layouts
PriceSet == {PyInt(10), PyInt(-5), S("x"), None, NaN}
TimestampSet == {S("1/2/24"), S("01/02/24"), S("2/30/24")}

SeqsUpTo(rowset, n) == UNION {[1..k -> rowset] : k \in 0..n}

\* pandas keeps None only in a column of dtype object: in a column whose
\* other values are all numbers a missing value is NaN
ObjectOrNumeric(rows) ==
    (\E i \in 1..Len(rows) : rows[i]["price"] = None)
        /\ (\E i \in 1..Len(rows) : rows[i]["price"].kind = "int")
        => \E i \in 1..Len(rows) : rows[i]["price"].kind = "str"

TableSet ==
    {DataFrame(<<"id">>, rows) :
        rows \in SeqsUpTo({[id |-> PyInt(i)] : i \in 1..2}, MaxLen)}
    \cup {DataFrame(<<"price">>, rows) :
        rows \in {r \in SeqsUpTo({[price |-> p] : p \in PriceSet}, MaxLen) :
                    ObjectOrNumeric(r)}}
    \cup {DataFrame(<<"timestamp">>, rows) :
        rows \in SeqsUpTo({[timestamp |-> t] : t \in TimestampSet}, MaxLen)}
    \cup {DataFrame(<<"price", "timestamp">>, rows) :
        rows \in {r \in SeqsUpTo({[price |-> p, timestamp |-> t] :
                                   p \in PriceSet, t \in TimestampSet}, MaxLen) :
                    ObjectOrNumeric(r)}}

\* the two input files of the pipeline
TxnCols == <<"customer_id", "product_id", "quantity", "price", "timestamp">>
CatCols == <<"product_id", "product_name", "category", "price">>

Txn(c, p, q, price, ts) ==
    [customer_id |-> PyInt(c), product_id |-> PyInt(p), quantity |-> PyInt(q),
     price |-> PyInt(price), timestamp |-> S(ts)]

Cat(p, name, category, price) ==
    [product_id |-> PyInt(p), product_name |-> name, category |-> category,
     price |-> PyInt(price)]

TxnRowSet ==
    {Txn(1, 1, 2, 10, "1/2/24"),      \* a sale of product 1
     Txn(2, 1, 1, -5, "1/3/24"),      \* an invalid price
     Txn(2, 2, 3, 10, "1/3/24"),      \* a product the catalog does not have
     Txn(1, 1, 1, 10, "2/30/24")}     \* a timestamp that is no date

CatRowSet ==
    {Cat(1, "A", "x", 10),
     Cat(1, "B", "y", 20)}            \* a second catalog row of product 1

Tables ==
    {"raw.customer_transactions", "raw.product_catalog",
     "ingest.customer_transactions", "ingest.product_catalog",
     "curate.unified_transactions"}

OutputFiles ==
    {"top2_best_selling.csv", "average_order_value_per_customer.csv",
     "total_revenue_per_product.csv"}

Unset == [st |-> "unset", exc |-> "none", ret |-> FALSE, df |-> NoFrame]
\* a query result not yet read (top_2_selling is a sequence of rows, the
\* other two results are sets of rows), and one that was read
NoTop2 == [st |-> "unset", rows |-> <<>>]
NoReport == [st |-> "unset", rows |-> {}]
Report(rows) == [st |-> "set", rows |-> rows]
NoOutput == [f \in OutputFiles |-> IF f = "top2_best_selling.csv" THEN NoTop2 ELSE NoReport]

----------------------------------------------------------------------------
(* Initial states *)

ProcessStart ==
    /\ pc = "gate"
    /\ exc = "none"
    /\ failures = 0
    /\ slept = 0
    /\ last_attempt = "none"
    /\ engine = FALSE
    /\ probe = "none"
    /\ conn = "none"
    /\ customer_txn_df = NoFrame
    /\ product_cat_df = NoFrame
    /\ clean_customer_txn_df = NoFrame
    /\ clean_product_cat_df = NoFrame
    /\ merge_data = NoFrame
    /\ top_2_selling = NoTop2
    /\ avg_price_per_cust = NoReport
    /\ total_rev_per_prod = NoReport

PureStart ==
    /\ validated = Unset
    /\ cleaned = Unset
    /\ recleaned = Unset

Init ==
    /\ txn_file \in {[cols |-> TxnCols, rows |-> rows] :
                        rows \in SeqsUpTo(TxnRowSet, MaxTxnRows)}
    /\ cat_file \in {[cols |-> CatCols, rows |-> rows] :
                        rows \in SeqsUpTo(CatRowSet, MaxCatRows)}
    /\ db = [t \in Tables |-> <<>>]
    /\ output = NoOutput
    /\ run = 1
    /\ ProcessStart
    /\ value = None
    /\ table = NoFrame
    /\ PureStart

InitClean ==
    /\ value \in ScalarSet
    /\ table \in TableSet
    /\ PureStart
    /\ txn_file = [cols |-> TxnCols, rows |-> <<>>]
    /\ cat_file = [cols |-> CatCols, rows |-> <<>>]
    /\ db = [t \in Tables |-> <<>>]
    /\ output = NoOutput
    /\ run = 1
    /\ ProcessStart

----------------------------------------------------------------------------
(* SpecClean: the pure functions applied to their inputs *)

Outcome(r) ==
    [st |-> IF r.exc = "none" THEN "returned" ELSE "raised",
     exc |-> r.exc, ret |-> FALSE, df |-> r.df]

Validate ==
    /\ validated.st = "unset"
    /\ validated' = (LET r == is_valid_value(value)
                     IN  [st |-> IF r.exc = "none" THEN "returned" ELSE "raised",
                          exc |-> r.exc, ret |-> r.ret, df |-> NoFrame])
    /\ UNCHANGED <<value, table, cleaned, recleaned>>
    /\ UNCHANGED <<envVars, gateVars, frameVars, reportVars, db, output, pc, exc, conn>>

Clean ==
    /\ cleaned.st = "unset"
    /\ cleaned' = Outcome(clean_data(table))
    /\ UNCHANGED <<value, validated, table, recleaned>>
    /\ UNCHANGED <<envVars, gateVars, frameVars, reportVars, db, output, pc, exc, conn>>

CleanAgain ==
    /\ cleaned.st = "returned"
    /\ recleaned.st = "unset"
    /\ recleaned' = Outcome(clean_data(cleaned.df))
    /\ UNCHANGED <<value, validated, table, cleaned>>
    /\ UNCHANGED <<envVars, gateVars, frameVars, reportVars, db, output, pc, exc, conn>>

NextClean == Validate \/ Clean \/ CleanAgain

SpecClean == InitClean /\ [][NextClean]_vars

----------------------------------------------------------------------------
(* Spec: the __main__ block, one action per statement *)

\* an exception handler that undoes the writes of the run
Raise_rollback(e) ==
    /\ exc' = e
    /\ conn' = IF conn = "open" THEN "closed" ELSE conn
    /\ db' = [t \in Tables |-> <<>>]
    /\ UNCHANGED <<pc, output, cleanVars, envVars, gateVars, frameVars, reportVars>>

\* an exception nothing handles: the process ends where it is; the with
\* block, if entered, closes its connection on the way out
Raise(e) ==
    /\ exc' = e
    /\ conn' = IF conn = "open" THEN "closed" ELSE conn
    /\ UNCHANGED <<pc, db, output, cleanVars, envVars, gateVars, frameVars, reportVars>>

\* a retry loop that gives up at the second OperationalError
GateAttempt_ceiling ==
    /\ pc = "gate"
    /\ exc = "none"
    /\ \/ /\ last_attempt' = "ok"
          /\ engine' = TRUE
          /\ probe' = "closed"
          /\ pc' = "connect"
          /\ UNCHANGED <<failures, slept, exc>>
       \/ /\ failures < 1
          /\ last_attempt' = "OperationalError"
          /\ engine' = TRUE
          /\ failures' = failures + 1
          /\ slept' = slept + RetryInterval
          /\ UNCHANGED <<probe, pc, exc>>
       \/ /\ failures >= 1
          /\ last_attempt' = "OperationalError"
          /\ exc' = "OperationalError"
          /\ engine' = TRUE
          /\ UNCHANGED <<failures, slept, probe, pc>>
       \/ /\ last_attempt' = "ArgumentError"
          /\ exc' = "ArgumentError"
          /\ UNCHANGED <<failures, slept, engine, probe, pc>>
    /\ UNCHANGED <<conn, db, output, cleanVars, envVars, frameVars, reportVars>>

\* a retry loop with a bare except: every exception is slept on and retried
GateAttempt_catch_all ==
    /\ pc = "gate"
    /\ exc = "none"
    /\ \/ /\ last_attempt' = "ok"
          /\ engine' = TRUE
          /\ probe' = "closed"
          /\ pc' = "connect"
          /\ UNCHANGED <<failures, slept, exc>>
       \/ /\ failures < MaxFailures
          /\ last_attempt' = "OperationalError"
          /\ engine' = TRUE
          /\ failures' = failures + 1
          /\ slept' = slept + RetryInterval
          /\ UNCHANGED <<probe, pc, exc>>
       \/ /\ slept < RetryInterval * (MaxFailures + 1)
          /\ last_attempt' = "ArgumentError"
          /\ slept' = slept + RetryInterval
          /\ UNCHANGED <<failures, engine, probe, pc, exc>>
    /\ UNCHANGED <<conn, db, output, cleanVars, envVars, frameVars, reportVars>>

\* one pass of the while True loop
GateAttempt ==
    /\ pc = "gate"
    /\ exc = "none"
    /\ \/ \* connected: the probe connection is closed, break
          /\ last_attempt' = "ok"
          /\ engine' = TRUE
          /\ probe' = "closed"
          /\ pc' = "connect"
          /\ UNCHANGED <<failures, slept, exc>>
       \/ \* except OperationalError: sleep 5 and go round again
          /\ failures < MaxFailures
          /\ last_attempt' = "OperationalError"
          /\ engine' = TRUE
          /\ failures' = failures + 1
          /\ slept' = slept + RetryInterval
          /\ UNCHANGED <<probe, pc, exc>>
       \/ \* any other exception of create_engine or connect is not caught
          /\ last_attempt' = "ArgumentError"
          /\ exc' = "ArgumentError"
          /\ UNCHANGED <<failures, slept, engine, probe, pc>>
    /\ UNCHANGED <<conn, db, output, cleanVars, envVars, frameVars, reportVars>>

\* with engine.connect() as conn
EnterWith ==
    /\ pc = "connect"
    /\ exc = "none"
    /\ \/ /\ conn' = "open"
          /\ pc' = "load_txn"
          /\ UNCHANGED <<exc, db, output, cleanVars, envVars, gateVars,
                         frameVars, reportVars>>
       \/ Raise("OperationalError")

LoadTxn ==
    /\ pc = "load_txn"
    /\ exc = "none"
    /\ \/ LET r == load_data(txn_file, "json")
          IN  IF r.exc # "none" THEN Raise(r.exc)
              ELSE /\ customer_txn_df' = r.df
                   /\ pc' = "load_cat"
                   /\ UNCHANGED <<exc, conn, db, output, cleanVars, envVars, gateVars,
                                  reportVars, product_cat_df, clean_customer_txn_df,
                                  clean_product_cat_df, merge_data>>
       \/ Raise("IOError")

LoadCat ==
    /\ pc = "load_cat"
    /\ exc = "none"
    /\ \/ LET r == load_data(cat_file, "csv")
          IN  IF r.exc # "none" THEN Raise(r.exc)
              ELSE /\ product_cat_df' = r.df
                   /\ pc' = "raw_txn"
                   /\ UNCHANGED <<exc, conn, db, output, cleanVars, envVars, gateVars,
                                  reportVars, customer_txn_df, clean_customer_txn_df,
                                  clean_product_cat_df, merge_data>>
       \/ Raise("IOError")

\* one to_sql statement: the write, or the database failing
Write(at, dest, df, next) ==
    /\ pc = at
    /\ exc = "none"
    /\ \/ /\ db' = to_sql(db, dest, df)
          /\ pc' = next
          /\ UNCHANGED <<exc, conn, output, cleanVars, envVars, gateVars,
                         frameVars, reportVars>>
       \/ Raise("OperationalError")

WriteRawTxn == Write("raw_txn", "raw.customer_transactions", customer_txn_df, "raw_cat")

WriteRawCat == Write("raw_cat", "raw.product_catalog", product_cat_df, "clean_txn")

CleanTxn ==
    /\ pc = "clean_txn"
    /\ exc = "none"
    /\ LET r == clean_data(customer_txn_df)
       IN  IF r.exc # "none" THEN Raise(r.exc)
           ELSE /\ clean_customer_txn_df' = r.df
                /\ pc' = "clean_cat"
                /\ UNCHANGED <<exc, conn, db, output, cleanVars, envVars, gateVars,
                               reportVars, customer_txn_df, product_cat_df,
                               clean_product_cat_df, merge_data>>

CleanCat ==
    /\ pc = "clean_cat"
    /\ exc = "none"
    /\ LET r == clean_data(product_cat_df)
       IN  IF r.exc # "none" THEN Raise(r.exc)
           ELSE /\ clean_product_cat_df' = r.df
                /\ pc' = "ingest_txn"
                /\ UNCHANGED <<exc, conn, db, output, cleanVars, envVars, gateVars,
                               reportVars, customer_txn_df, product_cat_df,
                               clean_customer_txn_df, merge_data>>

WriteIngestTxn ==
    Write("ingest_txn", "ingest.customer_transactions", clean_customer_txn_df, "ingest_cat")

WriteIngestCat ==
    Write("ingest_cat", "ingest.product_catalog", clean_product_cat_df, "merge")

Merge ==
    /\ pc = "merge"
    /\ exc = "none"
    /\ IF ~("product_id" \in Range(clean_customer_txn_df.cols)
            /\ "product_id" \in Range(clean_product_cat_df.cols))
       THEN Raise("KeyError")
       ELSE /\ merge_data' = merge(clean_customer_txn_df, clean_product_cat_df)
            /\ pc' = "curate"
            /\ UNCHANGED <<exc, conn, db, output, cleanVars, envVars, gateVars,
                           reportVars, customer_txn_df, product_cat_df,
                           clean_customer_txn_df, clean_product_cat_df>>

WriteCurate == Write("curate", "curate.unified_transactions", merge_data, "query_top2")

\* pd.read_sql of the three queries
QueryTop2 ==
    /\ pc = "query_top2"
    /\ exc = "none"
    /\ \/ /\ \E rows \in Top2Query(db["curate.unified_transactions"]) :
                top_2_selling' = Report(rows)
          /\ pc' = "csv_top2"
          /\ UNCHANGED <<exc, conn, db, output, cleanVars, envVars, gateVars,
                         frameVars, avg_price_per_cust, total_rev_per_prod>>
       \/ Raise("OperationalError")

QueryAvg ==
    /\ pc = "query_avg"
    /\ exc = "none"
    /\ \/ /\ avg_price_per_cust' = Report(AvgQuery(db["curate.unified_transactions"]))
          /\ pc' = "csv_avg"
          /\ UNCHANGED <<exc, conn, db, output, cleanVars, envVars, gateVars,
                         frameVars, top_2_selling, total_rev_per_prod>>
       \/ Raise("OperationalError")

QueryRev ==
    /\ pc = "query_rev"
    /\ exc = "none"
    /\ \/ /\ total_rev_per_prod' = Report(RevenueQuery(db["curate.unified_transactions"]))
          /\ pc' = "csv_rev"
          /\ UNCHANGED <<exc, conn, db, output, cleanVars, envVars, gateVars,
                         frameVars, top_2_selling, avg_price_per_cust>>
       \/ Raise("OperationalError")

\* print and to_csv of one report; after the last one print("Done") and the
\* end of the with block
Export(at, file, report, next) ==
    /\ pc = at
    /\ exc = "none"
    /\ \/ /\ output' = [output EXCEPT ![file] = report]
          /\ pc' = next
          /\ conn' = IF next = "done" THEN "closed" ELSE conn
          /\ UNCHANGED <<exc, db, cleanVars, envVars, gateVars, frameVars, reportVars>>
       \/ Raise("IOError")

CsvTop2 == Export("csv_top2", "top2_best_selling.csv", top_2_selling, "query_avg")

\* the second report is printed but not written
CsvAvg_skip ==
    /\ pc = "csv_avg"
    /\ exc = "none"
    /\ pc' = "query_rev"
    /\ UNCHANGED <<exc, conn, db, output, cleanVars, envVars, gateVars, frameVars,
                   reportVars>>

CsvAvg ==
    Export("csv_avg", "average_order_value_per_customer.csv", avg_price_per_cust,
           "query_rev")

CsvRev == Export("csv_rev", "total_revenue_per_product.csv", total_rev_per_prod, "done")

\* the program is started again, on the same files and the same database
Restart ==
    /\ pc = "done"
    /\ run < MaxRuns
    /\ run' = run + 1
    /\ pc' = "gate"
    /\ exc' = "none"
    /\ failures' = 0
    /\ slept' = 0
    /\ last_attempt' = "none"
    /\ engine' = FALSE
    /\ probe' = "none"
    /\ conn' = "none"
    /\ customer_txn_df' = NoFrame
    /\ product_cat_df' = NoFrame
    /\ clean_customer_txn_df' = NoFrame
    /\ clean_product_cat_df' = NoFrame
    /\ merge_data' = NoFrame
    /\ top_2_selling' = NoTop2
    /\ avg_price_per_cust' = NoReport
    /\ total_rev_per_prod' = NoReport
    /\ UNCHANGED <<txn_file, cat_file, db, output, cleanVars>>

Next ==
    \/ GateAttempt
    \/ EnterWith
    \/ LoadTxn
    \/ LoadCat
    \/ WriteRawTxn
    \/ WriteRawCat
    \/ CleanTxn
    \/ CleanCat
    \/ WriteIngestTxn
    \/ WriteIngestCat
    \/ Merge
    \/ WriteCurate
    \/ QueryTop2
    \/ CsvTop2
    \/ QueryAvg
    \/ CsvAvg
    \/ QueryRev
    \/ CsvRev
    \/ Restart

Spec == Init /\ [][Next]_vars

----------------------------------------------------------------------------
(* Properties of the pure functions (SpecClean) *)

HasCol(df, c) == c \in Range(df.cols)

\* value can be coerced to a number that is strictly positive
PositiveNumber(v) ==
    LET f == Float(v) IN f.exc = "none" /\ ~f.nan /\ f.n > 0

\* C1: is_valid_value is total: on every scalar, None and non-numeric
\* values included, it returns a boolean and raises nothing, and it returns
\* false on every value that cannot be coerced to a number.
C1_ValidatorTotal ==
    validated.st # "unset" =>
        /\ validated.st = "returned"
        /\ validated.ret \in BOOLEAN
        /\ (Float(value).exc # "none" => validated.ret = FALSE)

NoDuplicateRows(df) ==
    \A i, j \in 1..Len(df.rows) : i # j => df.rows[i] # df.rows[j]

\* C2: whenever clean_data succeeds, no two rows of its result are equal in
\* all columns (the timestamp column being normalized), and, when there is
\* a price column, every price is coercible to a number > 0.
C2_CleanedInvariant ==
    cleaned.st = "returned" =>
        /\ NoDuplicateRows(cleaned.df)
        /\ (HasCol(cleaned.df, "price") =>
                \A i \in 1..Len(cleaned.df.rows) :
                    PositiveNumber(cleaned.df.rows[i]["price"]))

\* C3: whenever clean_data(T) succeeds, clean_data(clean_data(T)) has
\* exactly the rows of clean_data(T): the second application removes no row.
C3_CleanIdempotent ==
    recleaned.st # "unset" =>
        /\ recleaned.st = "returned"
        /\ recleaned.df.rows = cleaned.df.rows
        /\ recleaned.df.index = cleaned.df.index

\* the labels of the rows of T that clean_data is to keep: the first
\* occurrence of every distinct row, if its price passes is_valid_value
Retained(df) ==
    SelectPositions(Len(df.rows),
        {i \in 1..Len(df.rows) :
            /\ \A j \in 1..(i - 1) : df.rows[j] # df.rows[i]
            /\ HasCol(df, "price") =>
                  LET v == is_valid_value(df.rows[i]["price"])
                  IN  v.exc = "none" /\ v.ret})

\* row r of the result is row s of the input, its timestamp normalized
SameRow(r, s, cols) ==
    \A c \in Range(cols) :
        IF c = "timestamp" THEN r[c] = to_datetime(s[c]).v ELSE r[c] = s[c]

RowsAsRetained(res, df) ==
    /\ res.cols = df.cols
    /\ res.index = Retained(df)
    /\ \A k \in 1..Len(res.rows) : SameRow(res.rows[k], df.rows[res.index[k]], df.cols)

\* C4: for every table T (a timestamp that cannot be parsed being the one
\* sanctioned failure), clean_data(T) has the columns of T and exactly, in
\* their order in T, the first occurrences of T's distinct rows whose price
\* passes is_valid_value; without a price column no row is filtered.
C4_CleanRows ==
    cleaned.st # "unset" /\ cleaned.exc # "ParseError" =>
        /\ cleaned.st = "returned"
        /\ RowsAsRetained(cleaned.df, table)

\* what does hold of clean_data: C4 on the tables on which it returns
CleanRowsWhenReturned ==
    cleaned.st = "returned" => RowsAsRetained(cleaned.df, table)

----------------------------------------------------------------------------
(* Properties of the pipeline (Spec) *)

\* the statements of the with block and before, in program order
Statements ==
    <<"gate", "connect", "load_txn", "load_cat", "raw_txn", "raw_cat",
      "clean_txn", "clean_cat", "ingest_txn", "ingest_cat", "merge", "curate",
      "query_top2", "csv_top2", "query_avg", "csv_avg", "query_rev", "csv_rev",
      "done">>

At(p) == CHOOSE i \in 1..Len(Statements) : Statements[i] = p

\* the statement that writes a table
WrittenAt(t) ==
    CASE t = "raw.customer_transactions" -> "raw_txn"
      [] t = "raw.product_catalog" -> "raw_cat"
      [] t = "ingest.customer_transactions" -> "ingest_txn"
      [] t = "ingest.product_catalog" -> "ingest_cat"
      [] t = "curate.unified_transactions" -> "curate"

\* the in-memory frame a table is written from
FrameOf(t) ==
    CASE t = "raw.customer_transactions" -> customer_txn_df
      [] t = "raw.product_catalog" -> product_cat_df
      [] t = "ingest.customer_transactions" -> clean_customer_txn_df
      [] t = "ingest.product_catalog" -> clean_product_cat_df
      [] t = "curate.unified_transactions" -> merge_data

IsPrefix(a, b) == Len(a) <= Len(b) /\ SubSeq(b, 1, Len(a)) = a

Failed == exc # "none"

RECURSIVE Repeat(_, _)
Repeat(rows, k) == IF k <= 0 THEN <<>> ELSE rows \o Repeat(rows, k - 1)

\* the rows one complete run writes into a table
RunRows(t) ==
    LET txn == load_data(txn_file, "json").df
        cat == load_data(cat_file, "csv").df
    IN  CASE t = "raw.customer_transactions" -> txn.rows
          [] t = "raw.product_catalog" -> cat.rows
          [] t = "ingest.customer_transactions" -> clean_data(txn).df.rows
          [] t = "ingest.product_catalog" -> clean_data(cat).df.rows
          [] t = "curate.unified_transactions" ->
                merge(clean_data(txn).df, clean_data(cat).df).rows

\* table t holds what k complete runs write into it
HasCopies(t, k) == db[t] = Repeat(RunRows(t), k)

\* this run has written table t / has not written it
Written(t) == HasCopies(t, run)
NotWritten(t) == HasCopies(t, run - 1)

NothingLoaded ==
    /\ customer_txn_df = NoFrame
    /\ product_cat_df = NoFrame
    /\ clean_customer_txn_df = NoFrame
    /\ clean_product_cat_df = NoFrame
    /\ merge_data = NoFrame

NothingReported ==
    /\ top_2_selling = NoTop2
    /\ avg_price_per_cust = NoReport
    /\ total_rev_per_prod = NoReport

\* C5: if the first n connection attempts fail with an OperationalError and
\* the next one succeeds, the loop has slept exactly n times 5, once after
\* each failure and not after the success, has closed the probe connection,
\* leaves with an engine and without an exception; a connectivity failure
\* never ends the loop, whatever their number.
C5_GateRetries ==
    /\ [](slept = RetryInterval * failures)
    /\ [](pc = "gate" => exc # "OperationalError")
    /\ [](last_attempt = "OperationalError" /\ pc = "gate" => ~Failed)
    /\ [][failures' = failures + 1 =>
            pc' = "gate" /\ exc' = "none" /\ slept' = slept + RetryInterval]_vars
    /\ [][pc = "gate" /\ pc' # "gate" =>
            /\ last_attempt' = "ok"
            /\ pc' = "connect"
            /\ exc' = "none"
            /\ engine'
            /\ probe' = "closed"
            /\ slept' = slept
            /\ slept' = RetryInterval * failures']_vars

C5_Witness ==
    pc = "connect" /\ last_attempt = "ok" /\ failures = 2 /\ slept = 2 * RetryInterval /\ ~Failed

\* C6: an exception of the retry loop that is no OperationalError is raised
\* by the attempt in which it occurs: no sleep, no further attempt, and no
\* statement of the pipeline (load, write, clean, merge, export) runs after.
C6_OtherErrorPropagates ==
    /\ [](last_attempt = "ArgumentError" =>
            /\ exc = "ArgumentError"
            /\ pc = "gate"
            /\ slept = RetryInterval * failures
            /\ conn = "none"
            /\ NothingLoaded
            /\ NothingReported
            /\ \A t \in Tables : NotWritten(t))
    /\ [][last_attempt # "ArgumentError"]_vars

C6_Witness ==
    last_attempt = "ArgumentError" /\ exc = "ArgumentError" /\ failures = 1

\* the reports that are read after statement p
ReportsAfter(p) ==
    /\ At(p) <= At("query_top2") => top_2_selling = NoTop2
    /\ At(p) <= At("query_avg") => avg_price_per_cust = NoReport
    /\ At(p) <= At("query_rev") => total_rev_per_prod = NoReport

\* C7: a failure at any statement ends the run there: DONE is not reached,
\* no later statement runs (no later table is written, no later report
\* read or exported), and every table written before keeps its rows; a
\* timestamp that cannot be parsed leaves both raw tables written and the
\* ingest and curate tables as they were before the run.
C7_FailureIsFatal ==
    /\ [](Failed =>
            /\ pc # "done"
            /\ ReportsAfter(pc)
            /\ \A t \in Tables :
                  IF At(WrittenAt(t)) < At(pc) THEN Written(t) ELSE NotWritten(t))
    /\ [](exc = "ParseError" =>
            /\ Written("raw.customer_transactions")
            /\ Written("raw.product_catalog")
            /\ NotWritten("ingest.customer_transactions")
            /\ NotWritten("ingest.product_catalog")
            /\ NotWritten("curate.unified_transactions"))
    /\ [][~Failed /\ \A t \in Tables : IsPrefix(db[t], db'[t])]_vars

C7_Witness ==
    /\ exc = "ParseError"
    /\ pc = "clean_txn"
    /\ Len(db["raw.customer_transactions"]) = 2
    /\ db["ingest.customer_transactions"] = <<>>

\* C8: every write only adds rows to its table, so after the second run on
\* the same files each of the five tables has exactly twice the rows it
\* had after the first run, the tables being empty at the start.
C8_AppendOnly ==
    /\ [](pc = "done" =>
            \A t \in Tables :
                /\ Len(db[t]) = run * Len(RunRows(t))
                /\ db[t] = Repeat(RunRows(t), run))
    /\ [][\A t \in Tables :
            /\ IsPrefix(db[t], db'[t])
            /\ db'[t] # db[t] =>
                  /\ pc = WrittenAt(t)
                  /\ db'[t] = db[t] \o FrameOf(t).rows]_vars

C8_Witness ==
    /\ pc = "done"
    /\ run = 2
    /\ Len(db["raw.customer_transactions"]) = 4
    /\ Len(db["ingest.customer_transactions"]) = 2
    /\ Len(db["curate.unified_transactions"]) = 4

\* unified row u is the join of transaction l and catalog row r
FromPair(u, l, r) ==
    /\ u["customer_id"] = l["customer_id"]
    /\ u["product_id"] = l["product_id"]
    /\ u["product_id"] = r["product_id"]
    /\ u["quantity"] = l["quantity"]
    /\ u["price_x"] = l["price"]
    /\ u["timestamp"] = l["timestamp"]
    /\ u["product_name"] = r["product_name"]
    /\ u["category"] = r["category"]
    /\ u["price_y"] = r["price"]

\* C9: the unified table has exactly one row for every pair of a cleaned
\* transaction and a cleaned catalog row with the same product_id, a
\* transaction whose product_id the cleaned catalog lacks contributes no
\* row, and every unified product_id occurs in both cleaned tables.
C9_JoinCorrect ==
    At(pc) > At("merge") =>
        LET L == clean_customer_txn_df.rows
            R == clean_product_cat_df.rows
            U == merge_data.rows
            Pairs == {p \in (1..Len(L)) \X (1..Len(R)) :
                        L[p[1]]["product_id"] = R[p[2]]["product_id"]}
        IN  /\ Len(U) = Cardinality(Pairs)
            /\ \A p \in Pairs :
                  Cardinality({k \in 1..Len(U) : FromPair(U[k], L[p[1]], R[p[2]])})
                    = Cardinality({q \in Pairs :
                            L[q[1]] = L[p[1]] /\ R[q[2]] = R[p[2]]})
            /\ \A i \in 1..Len(L) :
                  (\A j \in 1..Len(R) : R[j]["product_id"] # L[i]["product_id"])
                    => \A k \in 1..Len(U) : U[k]["product_id"] # L[i]["product_id"]
            /\ \A k \in 1..Len(U) :
                  /\ \E i \in 1..Len(L) : L[i]["product_id"] = U[k]["product_id"]
                  /\ \E j \in 1..Len(R) : R[j]["product_id"] = U[k]["product_id"]

C9_Witness ==
    /\ pc = "curate"
    /\ Len(clean_customer_txn_df.rows) = 2
    /\ Len(clean_product_cat_df.rows) = 2
    /\ Len(merge_data.rows) = 2
    /\ \E i \in 1..2 : clean_customer_txn_df.rows[i]["product_id"] = PyInt(2)

\* the states of the run, by statement
Phase(p) ==
    CASE p \in {"gate", "connect"} -> "AWAIT_CONN"
      [] p \in {"load_txn", "load_cat"} -> "LOAD_RAW"
      [] p \in {"raw_txn", "raw_cat"} -> "PERSIST_RAW"
      [] p \in {"clean_txn", "clean_cat"} -> "CLEAN"
      [] p \in {"ingest_txn", "ingest_cat"} -> "PERSIST_INGEST"
      [] p = "merge" -> "JOIN"
      [] p = "curate" -> "PERSIST_CURATE"
      [] p \in {"query_top2", "query_avg", "query_rev"} -> "AGGREGATE"
      [] p \in {"csv_top2", "csv_avg", "csv_rev"} -> "EXPORT"
      [] p = "done" -> "DONE"

Phases ==
    <<"AWAIT_CONN", "LOAD_RAW", "PERSIST_RAW", "CLEAN", "PERSIST_INGEST", "JOIN",
      "PERSIST_CURATE", "AGGREGATE", "EXPORT", "DONE">>

PhaseAt(p) == CHOOSE i \in 1..Len(Phases) : Phases[i] = Phase(p)

\* what the order of the run implies for the data
RunOrder ==
    \* nothing is loaded or written before the gate has connected
    /\ pc \in {"gate", "connect"} =>
          /\ NothingLoaded
          /\ NothingReported
          /\ \A t \in Tables : NotWritten(t)
    /\ ~NothingLoaded => last_attempt = "ok" /\ probe = "closed"
    \* the raw tables receive the files as loaded, before any cleaning
    /\ \A k \in {run - 1, run} :
          /\ db["raw.customer_transactions"] = Repeat(txn_file.rows, k)
                => HasCopies("raw.customer_transactions", k)
          /\ db["raw.product_catalog"] = Repeat(cat_file.rows, k)
                => HasCopies("raw.product_catalog", k)
    /\ \/ db["raw.customer_transactions"] = Repeat(txn_file.rows, run - 1)
       \/ db["raw.customer_transactions"] = Repeat(txn_file.rows, run)
    /\ \/ db["raw.product_catalog"] = Repeat(cat_file.rows, run - 1)
       \/ db["raw.product_catalog"] = Repeat(cat_file.rows, run)
    /\ At(pc) <= At("raw_cat") =>
          clean_customer_txn_df = NoFrame /\ clean_product_cat_df = NoFrame
    /\ At(pc) > At("clean_txn") =>
          /\ db["raw.customer_transactions"] = Repeat(txn_file.rows, run)
          /\ db["raw.product_catalog"] = Repeat(cat_file.rows, run)
    \* the curate table is written after both ingest tables
    /\ ~NotWritten("curate.unified_transactions") =>
          /\ Written("ingest.customer_transactions")
          /\ Written("ingest.product_catalog")
    /\ At(pc) > At("curate") =>
          /\ Written("ingest.customer_transactions")
          /\ Written("ingest.product_catalog")
          /\ Written("curate.unified_transactions")
    \* the queries read the curate table after it was written
    /\ ~NothingReported =>
          /\ Written("curate.unified_transactions")
          /\ At(pc) > At("query_top2")
    /\ top_2_selling.st = "set" =>
          top_2_selling.rows \in Top2Query(Repeat(RunRows("curate.unified_transactions"), run))
    /\ avg_price_per_cust.st = "set" =>
          avg_price_per_cust.rows
            = AvgQuery(Repeat(RunRows("curate.unified_transactions"), run))
    /\ total_rev_per_prod.st = "set" =>
          total_rev_per_prod.rows
            = RevenueQuery(Repeat(RunRows("curate.unified_transactions"), run))
    \* DONE is reached after the three reports are exported
    /\ pc = "done" =>
          /\ ~Failed
          /\ top_2_selling.st = "set"
          /\ avg_price_per_cust.st = "set"
          /\ total_rev_per_prod.st = "set"
          /\ output["top2_best_selling.csv"] = top_2_selling
          /\ output["average_order_value_per_customer.csv"] = avg_price_per_cust
          /\ output["total_revenue_per_product.csv"] = total_rev_per_prod

\* C10 as stated: the run goes through AWAIT_CONN, LOAD_RAW, PERSIST_RAW,
\* CLEAN, PERSIST_INGEST, JOIN, PERSIST_CURATE, AGGREGATE, EXPORT, DONE, each
\* state entered at most once and directly after its predecessor, with the
\* order of loads, writes, queries and exports that follows from it.
C10_LinearPhases ==
    /\ []RunOrder
    /\ [][run' = run =>
            PhaseAt(pc') = PhaseAt(pc) \/ PhaseAt(pc') = PhaseAt(pc) + 1]_vars

\* C10 as amended: the states up to PERSIST_CURATE are entered at most once
\* and in order; then the three reports are handled one after the other,
\* each queried and exported before the next is queried (AGGREGATE and
\* EXPORT alternate three times), and DONE follows the third export; the
\* order of loads, writes, queries and exports is as stated.
C10_StatementOrder ==
    /\ []RunOrder
    /\ [][run' = run => At(pc') = At(pc) \/ At(pc') = At(pc) + 1]_vars
    /\ [][run' = run /\ PhaseAt(pc) < PhaseAt("query_top2") =>
            PhaseAt(pc') = PhaseAt(pc) \/ PhaseAt(pc') = PhaseAt(pc) + 1]_vars
    /\ [][run' = run /\ Phase(pc) = "EXPORT" /\ pc' # pc =>
            IF pc = "csv_rev" THEN pc' = "done" ELSE Phase(pc') = "AGGREGATE"]_vars
    /\ [][run' = run /\ Phase(pc) = "AGGREGATE" /\ pc' # pc =>
            Phase(pc') = "EXPORT"]_vars

C10_Witness ==
    /\ pc = "done"
    /\ run = 1
    /\ Len(db["raw.customer_transactions"]) = 2
    /\ Len(db["ingest.customer_transactions"]) = 1
    /\ Len(db["curate.unified_transactions"]) = 2
    /\ output["total_revenue_per_product.csv"].st = "set"

====
